---- MODULE Spec2Model ----
(***************************************************************************)
(* A state-machine model of getJointSpaceForces.cpp: main()'s argument     *)
(* checks, the loading of the model, the opening of the four input streams *)
(* and the four output files, and the frame loop (read, decompose, write). *)
(*                                                                         *)
(* Numbers are exact reals of the form  k0 + k1*c + k2*c^2 + ...  with     *)
(* c = pi/180 and integer k_i (pi is transcendental, so two such numbers   *)
(* are equal exactly when their coefficients are).  Floating-point         *)
(* rounding is not modelled.  The OpenSim/Simbody calls are linear maps    *)
(* with fixed small coefficients; what is read from the input files and    *)
(* from the model file is drawn from small sets.  The verbose printing     *)
(* (printInfo) changes no state the outputs depend on and is left out.     *)
(***************************************************************************)
EXTENDS Integers, Sequences, FiniteSets, TLC

\* ---------------------------------------------------------------- bounds
\* The most frames any input stream holds.
MaxFrames == 3
\* The largest argc tried.
MaxArgc == 9
\* The most input streams that end out of step: one of the other three
\* before the states stream does, or the states stream without end-of-file.
MaxShort == 1
\* The loop over a state stream that failed without end-of-file never ends:
\* the model follows it for one iteration past the longest stream.
MaxIter == MaxFrames + 1
\* One degree-to-radian conversion at most is applied per iteration.
MaxPow == MaxIter

\* ------------------------------------------------------ program constants
expectedGRFSize == 18
CentrifugalCapacity == 18

\* The frames tried: what one row of each of the four input files holds
\* (every acceleration and torque column holds the value given, grfs column j
\* holds (j+1) times it, every state column holds it).
FrameRows ==
    {[accelerations |-> 0, dynamics |-> 0, grfs |-> 0, states |-> 0],
     [accelerations |-> 2, dynamics |-> 0, grfs |-> 0, states |-> 0],
     [accelerations |-> 2, dynamics |-> 1, grfs |-> 1, states |-> 1]}
\* What an uninitialised buffer may hold.
UninitVals == {7, 9}
\* argv[7] as atoi reads it.
FlagVals == {0, 1, 2}
BodyCounts == {17, 18, 19}
TrackedBodies == {"calcn_r", "calcn_l", "femur_r", "femur_l"}
StreamNames == {"grfs", "states", "accelerations", "dynamics"}

\* ------------------------------------------------------------ arithmetic
Pows == 0..MaxPow
Zero == [i \in Pows |-> 0]
Const(k) == [i \in Pows |-> IF i = 0 THEN k ELSE 0]
PAdd(p, q) == [i \in Pows |-> p[i] + q[i]]
PSub(p, q) == [i \in Pows |-> p[i] - q[i]]
PNeg(p) == [i \in Pows |-> 0 - p[i]]
PScale(k, p) == [i \in Pows |-> k * p[i]]
\* Mutant: the conversion left out.
DegToRadIdentity(p) == p

\* x * (std::atan(1)*4)/180.0
DegToRad(p) == [i \in Pows |-> IF i = 0 THEN 0 ELSE p[i - 1]]

Dofs(n) == 0..(n - 1)
EmptyVec == [j \in {} |-> Zero]
Fill(n, k) == [j \in Dofs(n) |-> Const(k)]
Size(v) == Cardinality(DOMAIN v)
VAdd(a, b) == [j \in DOMAIN a |-> PAdd(a[j], b[j])]
VSub(a, b) == [j \in DOMAIN a |-> PSub(a[j], b[j])]
VNeg(a) == [j \in DOMAIN a |-> PNeg(a[j])]

\* f[0] + ... + f[k] (0 when k < 0).
RECURSIVE SumTo(_, _)
SumTo(f, k) == IF k < 0 THEN 0 ELSE f[k] + SumTo(f, k - 1)
SumAll(f) == SumTo(f, Cardinality(DOMAIN f) - 1)

\* ------------------------------------------------------------- the model
\* What the model file holds, as far as main() uses it: the number of
\* mobilities, the bodies by index with their names (index 0 is ground), and
\* what the dynamics engine answers with (mass, gravity).
BodyAt(j, missing) ==
    CASE j = 0 -> "ground"
      [] j = 2 /\ "femur_r" \notin missing -> "femur_r"
      [] j = 5 /\ "calcn_r" \notin missing -> "calcn_r"
      [] j = 7 /\ "femur_l" \notin missing -> "femur_l"
      [] j = 10 /\ "calcn_l" \notin missing -> "calcn_l"
      [] OTHER -> "other"

MkModel(n, m, missing, mass, g) ==
    [n_dofs |-> n, n_bodies |-> m,
     names |-> [j \in 0..(m - 1) |-> BodyAt(j, missing)],
     mass |-> mass, gravity |-> g]

\* The model files tried: complete 18-body models with 1 or 7 degrees of
\* freedom, models with 17 or 19 bodies, and models lacking one tracked body.
Models ==
    {MkModel(1, 18, {}, 1, 0), MkModel(1, 18, {}, 2, 1), MkModel(7, 18, {}, 1, 1)}
    \cup {MkModel(1, m, {}, 1, 1) : m \in BodyCounts}
    \cup {MkModel(1, 18, {b}, 1, 1) : b \in TrackedBodies}

NoModel == [n_dofs |-> 0, n_bodies |-> 0, names |-> EmptyVec, mass |-> 0, gravity |-> 0]

HasBody(model, name) == \E j \in DOMAIN model.names : model.names[j] = name

\* --------------------------------------------- the dynamics engine's calls
\* getMatterSubsystem().multiplyByM: M = mass * identity.
multiplyByM(mass, acc) == [j \in DOMAIN acc |-> PScale(mass, acc[j])]

\* getMatterSubsystem().multiplyBySystemJacobianTranspose: a linear map of
\* the per-body forces (every coefficient 1).
multiplyBySystemJacobianTranspose(F, n) == Fill(n, SumAll(F))

\* getGravityForce().getBodyForces: none on ground.
gravityForces(model) ==
    [b \in 0..(model.n_bodies - 1) |-> IF b = 0 THEN 0 ELSE model.gravity]

\* getTotalCentrifugalForces of a body: linear in the first velocity.
bodyCentrifugalForces(st, n) == st[n]

\* multiplyByFrameJacobianTranspose: linear in the wrench (moment, force).
multiplyByFrameJacobianTranspose(moment, force, n) ==
    Fill(n, SumAll(moment) + SumAll(force))

\* calcFrameJacobian: a 6 x n matrix; a default Matrix is 0 x 0.
calcFrameJacobian(n) == [nrow |-> 6, ncol |-> n]
EmptyMatrix == [nrow |-> 0, ncol |-> 0]

\* ------------------------------------------------------- rows of the inputs
GrfRow(f) == [j \in 0..(expectedGRFSize - 1) |-> f * (j + 1)]
AccRow(n, a) == Fill(n, a)
DynRow(n, d) == Fill(n, d)
StateRow(n, s) == [j \in 0..(2 * n - 1) |-> s]

VARIABLES
    pc, argc, exitCode,
    osimModel, outputsOpen, streams,
    states, accelerations, dynamics, grfs,
    readAt, input, first_frame, iter,
    inertiaTorques, gravityTorques, coriolisTorques,
    totalCentrifugalForces, centrifugalWrites,
    leftGRFTorques, rightGRFTorques, leftAPOJacobian, rightAPOJacobian,
    residualForce, internalForce,
    leftAPOJacobian_file, rightAPOJacobian_file,
    residualForce_file, internalForce_file

buffers == <<states, accelerations, dynamics, grfs, readAt, input>>
locals == <<inertiaTorques, gravityTorques, coriolisTorques,
            totalCentrifugalForces, centrifugalWrites,
            leftGRFTorques, rightGRFTorques, leftAPOJacobian, rightAPOJacobian,
            residualForce, internalForce>>
files == <<leftAPOJacobian_file, rightAPOJacobian_file,
           residualForce_file, internalForce_file>>
vars == <<pc, argc, exitCode, osimModel, outputsOpen, streams, buffers,
          first_frame, iter, locals, files>>

NoExit == 0 - 1
NeverRead == 0 - 1
UnsetCentrifugal ==
    [j \in 0..(CentrifugalCapacity - 1) |-> [set |-> FALSE, f |-> 0]]

Init ==
    /\ pc = "start"
    /\ argc \in 1..MaxArgc
    /\ exitCode = NoExit
    /\ osimModel = NoModel
    /\ outputsOpen = FALSE
    /\ streams = [x \in StreamNames |-> [st |-> "closed", pos |-> 0]]
    /\ states = EmptyVec /\ accelerations = EmptyVec
    /\ dynamics = EmptyVec /\ grfs = EmptyVec
    /\ readAt = [x \in StreamNames |-> NeverRead]
    /\ input = [x \in StreamNames |-> 0]
    /\ first_frame = TRUE
    /\ iter = 0
    /\ inertiaTorques = EmptyVec /\ gravityTorques = EmptyVec
    /\ coriolisTorques = EmptyVec
    /\ totalCentrifugalForces = UnsetCentrifugal
    /\ centrifugalWrites = {}
    /\ leftGRFTorques = EmptyVec /\ rightGRFTorques = EmptyVec
    /\ leftAPOJacobian = EmptyMatrix /\ rightAPOJacobian = EmptyMatrix
    /\ residualForce = EmptyVec /\ internalForce = EmptyVec
    /\ leftAPOJacobian_file = <<>> /\ rightAPOJacobian_file = <<>>
    /\ residualForce_file = <<>> /\ internalForce_file = <<>>

\* ------------------------------------------------------------- arguments
\* Mutant: the lower limit off by one (argc < 6).
ArgsRejectedLow(c, flag) ==
    \/ c < 6
    \/ c > 8
    \/ (c = 8 /\ ~(flag = 0 \/ flag = 1))

\* argc < 7, argc > 8, or an eighth argument that is not 0 or 1: return 1.
ArgsRejected(c, flag) ==
    \/ c < 7
    \/ c > 8
    \/ (c = 8 /\ ~(flag = 0 \/ flag = 1))

CheckArgs ==
    /\ pc = "start"
    /\ \E flag \in (IF argc = 8 THEN FlagVals ELSE {0}) :
         IF ArgsRejected(argc, flag)
         THEN pc' = "exited" /\ exitCode' = 1
         ELSE pc' = "load" /\ exitCode' = exitCode
    /\ UNCHANGED <<argc, osimModel, outputsOpen, streams, buffers,
                   first_frame, iter, locals, files>>

\* Model osimModel(MODEL_FILE); initSystem(); the two counts.
LoadModel ==
    /\ pc = "load"
    /\ \E model \in Models : osimModel' = model
    /\ pc' = "open"
    /\ UNCHANGED <<argc, exitCode, outputsOpen, streams, buffers,
                   first_frame, iter, locals, files>>

\* The model file cannot be loaded: the exception is caught, return 1.
LoadModelThrows ==
    /\ pc = "load"
    /\ pc' = "exited"
    /\ exitCode' = 1
    /\ UNCHANGED <<argc, osimModel, outputsOpen, streams, buffers,
                   first_frame, iter, locals, files>>

\* The four ifstreams and the four ofstreams are constructed and the input
\* buffers allocated (uninitialised).  A states file that cannot be opened
\* leaves its stream failed; for the other three an unopened file behaves as
\* an empty one (every read fails and alters nothing).
OpenFiles ==
    /\ pc = "open"
    /\ \E ok \in (IF MaxShort > 0 THEN BOOLEAN ELSE {TRUE}) :
         streams' = [x \in StreamNames |->
                       [st |-> IF x = "states" /\ ~ok THEN "fail" ELSE "good",
                        pos |-> 0]]
    /\ outputsOpen' = TRUE
    /\ \E u \in UninitVals :
         /\ states' = [j \in 0..(2 * osimModel.n_dofs - 1) |-> u]
         /\ accelerations' = Fill(osimModel.n_dofs, u)
         /\ dynamics' = Fill(osimModel.n_dofs, u)
         /\ grfs' = [j \in 0..(expectedGRFSize - 1) |-> u]
    /\ pc' = "loop"
    /\ UNCHANGED <<argc, exitCode, osimModel, readAt, input,
                   first_frame, iter, locals, files>>

\* ----------------------------------------------------------- the frame loop
\* What "file >> time" may meet on a stream that is still good: a number (a
\* row follows), the end of the file (eofbit and failbit), or, on the states
\* file, a token that is no number (failbit alone).  A stream that is not
\* good reads nothing.  On the other three files a bad token acts as the end
\* of the file does: only states_file.eof() is ever tested.
TimeOutcomes(x) ==
    IF streams[x].st # "good" THEN {"none"}
    ELSE (IF streams[x].pos < MaxFrames THEN {"row"} ELSE {})
         \cup {"eof"}
         \cup (IF x = "states" THEN {"fail"} ELSE {})

\* One outcome for each of the four time reads of an iteration.
TimeReads ==
    {[grfs |-> g, states |-> s, accelerations |-> a, dynamics |-> d] :
        g \in TimeOutcomes("grfs"), s \in TimeOutcomes("states"),
        a \in TimeOutcomes("accelerations"), d \in TimeOutcomes("dynamics")}

AfterTime(s, o) ==
    CASE o = "eof" -> [s EXCEPT !.st = "eof"]
      [] o = "fail" -> [s EXCEPT !.st = "fail"]
      [] OTHER -> s

\* A stream that ended out of step with the others: the states stream
\* failed without end-of-file, or another stream ended while the loop went on
\* and it could have held more frames.
OutOfStep(x, s) ==
    IF x = "states" THEN s.st = "fail"
    ELSE s.st # "good" /\ s.pos < MaxFrames

\* Mutant: only the first three indices converted.
ConvertedFirstThree(j) == j < 3

\* if ((j < 3) || (j > 5))
Converted(j) == (j < 3) \/ (j > 5)

\* accelerations_file >> accelerations[j], then the conversion in place: a
\* failed read leaves accelerations[j] as it was, and it is converted again.
ReadAccelerations(acc, got, row) ==
    [j \in DOMAIN acc |->
        LET v == IF got THEN row[j] ELSE acc[j]
        IN IF Converted(j) THEN DegToRad(v) ELSE v]

\* Mutant: the row read is dropped.
ReadIntoKeeps(buf, got, row) == buf

\* file >> buffer[j] for every j: a failed read leaves the buffer as it was.
ReadInto(buf, got, row) == IF got THEN row ELSE buf

\* The four time reads find the states file at its end: break.
EndOfStates ==
    /\ pc = "loop"
    /\ \E o \in TimeReads :
         /\ o["states"] = "eof"
         /\ streams' = [x \in StreamNames |-> AfterTime(streams[x], o[x])]
    /\ pc' = "done"
    /\ UNCHANGED <<argc, exitCode, osimModel, outputsOpen, buffers,
                   first_frame, iter, locals, files>>

\* The four time reads, states_file.eof() false, then the payload reads.
ReadFrame ==
    /\ pc = "loop"
    /\ iter < MaxIter
    /\ \E o \in TimeReads :
         /\ o["states"] # "eof"
         /\ streams' = [x \in StreamNames |->
                          IF o[x] = "row"
                          THEN [streams[x] EXCEPT !.pos = @ + 1]
                          ELSE AfterTime(streams[x], o[x])]
         /\ Cardinality({x \in StreamNames : OutOfStep(x, streams'[x])})
              <= MaxShort
         /\ \E r \in FrameRows :
              LET n == osimModel.n_dofs
                  a == r["accelerations"]
                  d == r["dynamics"]
                  f == r["grfs"]
                  s == r["states"]
              IN
              /\ input' = [x \in StreamNames |->
                             IF o[x] = "row" THEN r[x] ELSE input[x]]
              /\ grfs' = ReadInto(grfs, o["grfs"] = "row", GrfRow(f))
              /\ dynamics' = ReadInto(dynamics, o["dynamics"] = "row", DynRow(n, d))
              /\ accelerations' =
                   ReadAccelerations(accelerations, o["accelerations"] = "row",
                                     AccRow(n, a))
              /\ states' = ReadInto(states, o["states"] = "row", StateRow(n, s))
         /\ readAt' = [x \in StreamNames |->
                         IF o[x] = "row" THEN iter ELSE readAt[x]]
    /\ pc' = "process"
    /\ UNCHANGED <<argc, exitCode, osimModel, outputsOpen,
                   first_frame, iter, locals, files>>

\* What undefined behaviour may come to: the process is killed, an exception
\* reaches the catch blocks, or the run goes on with arbitrary values.
UBOutcomes == {"abort", "throw", "garbage"}

\* Mutant: the loop runs to j <= n_bodies.
CentrifugalIndicesOffByOne(m) == {0} \cup {j \in 1..m : TRUE}

\* for (int j=1; j < n_bodies; j++) totalCentrifugalForces[j] = ...
\* with totalCentrifugalForces[0] set before it: the indices written.
CentrifugalIndices(m) == {0} \cup {j \in 1..(m - 1) : TRUE}

\* The Vec<18, SpatialVec> after the loop: entries within the capacity that
\* the loop wrote; the others keep what the stack held.
CentrifugalBuffer(m, force) ==
    [j \in 0..(CentrifugalCapacity - 1) |->
        IF j \in CentrifugalIndices(m)
        THEN [set |-> TRUE, f |-> IF j = 0 THEN 0 ELSE force]
        ELSE [set |-> FALSE, f |-> 0]]

\* The loop and the call it feeds are defined only when the loop writes
\* every entry of the buffer and none beyond it.
CentrifugalOutcomes(m) ==
    IF CentrifugalIndices(m) = 0..(CentrifugalCapacity - 1) THEN {"ok"}
    ELSE UBOutcomes

\* The body-name dispatch loop: the contact torque of a foot, or the default
\* (empty) Vector when no body has the name.
ContactTorque(model, name, moment, force) ==
    IF HasBody(model, name)
    THEN multiplyByFrameJacobianTranspose(moment, force, model.n_dofs)
    ELSE EmptyVec

\* The attachment Jacobian, or the default (empty) Matrix.
AttachmentJacobian(model, name) ==
    IF HasBody(model, name) THEN calcFrameJacobian(model.n_dofs) ELSE EmptyMatrix

\* grfs[j], grfs[j+12] (right force, moment); grfs[j+6], grfs[j+15] (left).
Channels(g, from) == [j \in 0..2 |-> g[j + from]]

\* Mutant: the Coriolis term added instead of subtracted.
ResidualSumCoriolisSign(grav, inert, dyn, cor, right, left) ==
    VAdd(VAdd(VAdd(VAdd(VSub(grav, inert), dyn), cor), right), left)

\* gravityTorques - inertiaTorques + dynamics - coriolisTorques
\*   + rightGRFTorques + leftGRFTorques
ResidualSum(grav, inert, dyn, cor, right, left) ==
    VAdd(VAdd(VSub(VAdd(VSub(grav, inert), dyn), cor), right), left)

\* Mutant: the left contact term added instead of subtracted.
InternalSumLeftSign(grav, inert, cor, right, left) ==
    VAdd(VSub(VAdd(VSub(inert, grav), cor), right), left)

\* inertiaTorques - gravityTorques + coriolisTorques - rightGRFTorques
\*   - leftGRFTorques
InternalSum(grav, inert, cor, right, left) ==
    VSub(VSub(VAdd(VSub(inert, grav), cor), right), left)

\* Mutant: the first frame is written too.
WritesEveryFrame(first) == TRUE

\* if (! first_frame) { ... write ... } else { first_frame = false; }
WritesThisFrame(first) == ~first

\* Realize the state, compute the five torques and the two Jacobians, and,
\* after the first frame, append to the four files.
ProcessFrame ==
    /\ pc = "process"
    /\ LET n == osimModel.n_dofs
           m == osimModel.n_bodies
           right == ContactTorque(osimModel, "calcn_r", Channels(grfs, 12),
                                  Channels(grfs, 0))
           left == ContactTorque(osimModel, "calcn_l", Channels(grfs, 15),
                                 Channels(grfs, 6))
           inert == multiplyByM(osimModel.mass, accelerations)
           grav == multiplyBySystemJacobianTranspose(gravityForces(osimModel), n)
           buf == CentrifugalBuffer(m, bodyCentrifugalForces(states, n))
           writes == WritesThisFrame(first_frame)
           sumOk == Size(right) = n /\ Size(left) = n
       IN
       \E o1 \in CentrifugalOutcomes(m),
          o2 \in (IF writes /\ ~sumOk THEN UBOutcomes ELSE {"ok"}) :
        \E junk \in (IF o1 = "ok" /\ o2 = "ok" THEN {0} ELSE UninitVals) :
         LET stop1 == o1 \in {"abort", "throw"}
             stop2 == ~stop1 /\ o2 \in {"abort", "throw"}
             cor == IF o1 = "ok"
                    THEN multiplyBySystemJacobianTranspose(
                             [b \in 0..(m - 1) |-> buf[b].f], n)
                    ELSE Fill(n, junk)
             stopped == IF stop1 THEN o1 ELSE o2
         IN
         /\ inertiaTorques' = inert
         /\ gravityTorques' = grav
         /\ totalCentrifugalForces' = buf
         /\ centrifugalWrites' = CentrifugalIndices(m)
         /\ coriolisTorques' = IF stop1 THEN coriolisTorques ELSE cor
         /\ rightGRFTorques' = IF stop1 THEN rightGRFTorques ELSE right
         /\ leftGRFTorques' = IF stop1 THEN leftGRFTorques ELSE left
         /\ rightAPOJacobian' =
              IF stop1 THEN rightAPOJacobian
              ELSE AttachmentJacobian(osimModel, "femur_r")
         /\ leftAPOJacobian' =
              IF stop1 THEN leftAPOJacobian
              ELSE AttachmentJacobian(osimModel, "femur_l")
         /\ IF writes /\ ~stop1
            THEN /\ leftAPOJacobian_file' =
                      Append(leftAPOJacobian_file,
                             [frame |-> iter, block |-> leftAPOJacobian'])
                 /\ rightAPOJacobian_file' =
                      Append(rightAPOJacobian_file,
                             [frame |-> iter, block |-> rightAPOJacobian'])
            ELSE UNCHANGED <<leftAPOJacobian_file, rightAPOJacobian_file>>
         /\ IF writes /\ ~stop1 /\ ~stop2
            THEN /\ residualForce' =
                      IF sumOk
                      THEN ResidualSum(grav, inert, dynamics, cor, right, left)
                      ELSE Fill(n, junk)
                 /\ internalForce' =
                      IF sumOk THEN InternalSum(grav, inert, cor, right, left)
                      ELSE Fill(n, junk)
                 /\ residualForce_file' =
                      Append(residualForce_file,
                             [frame |-> iter, size |-> Size(residualForce'),
                              from |-> readAt])
                 /\ internalForce_file' =
                      Append(internalForce_file,
                             [frame |-> iter, size |-> Size(internalForce'),
                              from |-> readAt])
            ELSE UNCHANGED <<residualForce, internalForce,
                             residualForce_file, internalForce_file>>
         /\ first_frame' = IF stop1 THEN first_frame ELSE FALSE
         /\ pc' = CASE stop1 \/ stop2 ->
                         (IF stopped = "abort" THEN "aborted" ELSE "exited")
                    [] OTHER -> "end_iter"
         /\ exitCode' = IF (stop1 \/ stop2) /\ stopped = "throw" THEN 1
                        ELSE exitCode
    /\ UNCHANGED <<argc, osimModel, outputsOpen, streams, buffers, iter>>

\* The closing brace of the loop body: the frame's vectors and matrices are
\* destroyed; the next iteration declares them anew.
EndIteration ==
    /\ pc = "end_iter"
    /\ iter' = iter + 1
    /\ inertiaTorques' = EmptyVec /\ gravityTorques' = EmptyVec
    /\ coriolisTorques' = EmptyVec
    /\ totalCentrifugalForces' = UnsetCentrifugal
    /\ centrifugalWrites' = {}
    /\ leftGRFTorques' = EmptyVec /\ rightGRFTorques' = EmptyVec
    /\ leftAPOJacobian' = EmptyMatrix /\ rightAPOJacobian' = EmptyMatrix
    /\ residualForce' = EmptyVec /\ internalForce' = EmptyVec
    /\ pc' = "loop"
    /\ UNCHANGED <<argc, exitCode, osimModel, outputsOpen, streams,
                   buffers, first_frame, files>>

\* After the loop: delete [] states; the closing messages; return 0.
ReturnSuccess ==
    /\ pc = "done"
    /\ pc' = "exited"
    /\ exitCode' = 0
    /\ UNCHANGED <<argc, osimModel, outputsOpen, streams, buffers,
                   first_frame, iter, locals, files>>

Next ==
    \/ CheckArgs
    \/ LoadModel
    \/ LoadModelThrows
    \/ OpenFiles
    \/ EndOfStates
    \/ ReadFrame
    \/ ProcessFrame
    \/ EndIteration
    \/ ReturnSuccess

Spec == Init /\ [][Next]_vars

\* ================================================================ claims
n_dofs == osimModel.n_dofs
n_bodies == osimModel.n_bodies
\* The run left the loop by the break and went on to return 0.
Completed == pc = "done" \/ (pc = "exited" /\ exitCode = 0)
\* All four streams ended in the same iteration, after the same number of rows.
Aligned ==
    \A x \in StreamNames :
        streams[x].st = "eof" /\ streams[x].pos = streams["states"].pos
FramesInStates == streams["states"].pos
\* ProcessFrame has run in this iteration and its vectors are still alive.
Processed == pc \in {"end_iter", "aborted", "exited"} /\ centrifugalWrites # {}
\* This iteration appended a row to the residual and internal files.
WroteThisFrame ==
    /\ pc = "end_iter"
    /\ residualForce_file # <<>>
    /\ residualForce_file[Len(residualForce_file)].frame = iter
\* The six operands of the sums are vectors of length n_dofs that the
\* engine computed (no tracked foot body missing, 18 bodies).
SumDefined ==
    /\ n_bodies = CentrifugalCapacity
    /\ Size(rightGRFTorques) = n_dofs
    /\ Size(leftGRFTorques) = n_dofs
\* A model the code is written for: 18 bodies, the four tracked ones among
\* them.
CompleteModel ==
    /\ n_bodies = CentrifugalCapacity
    /\ \A b \in TrackedBodies : HasBody(osimModel, b)
AllFiles ==
    {leftAPOJacobian_file, rightAPOJacobian_file,
     residualForce_file, internalForce_file}
\* k * (pi/180)
Radians(k) == [i \in Pows |-> IF i = 1 THEN k ELSE 0]

\* C1: a completed run over four aligned streams of F >= 1 frames leaves
\* exactly F - 1 rows (blocks) in each of the four output files; the first
\* processed frame appends nothing and the k-th processed frame (k >= 1)
\* appends exactly one row to each file, the k-th.
C1_RowCount ==
    /\ \A file \in AllFiles :
         /\ pc = "loop" => Len(file) = (IF iter = 0 THEN 0 ELSE iter - 1)
         /\ pc = "end_iter" => Len(file) = iter
         /\ \A k \in 1..Len(file) : file[k].frame = k
    /\ (Completed /\ Aligned /\ FramesInStates >= 1)
         => \A file \in AllFiles : Len(file) = FramesInStates - 1

C1_Witness ==
    /\ Completed /\ Aligned /\ FramesInStates = 3
    /\ Len(residualForce_file) = 2 /\ Len(leftAPOJacobian_file) = 2

\* C2: in every frame that is written, each component of the residual row is
\* gravity - inertia + measured torque - Coriolis + right contact + left
\* contact of that frame's vectors, coefficient by coefficient.
C2_Residual ==
    (WroteThisFrame /\ SumDefined) =>
        /\ DOMAIN residualForce = Dofs(n_dofs)
        /\ \A j \in Dofs(n_dofs) : \A i \in Pows :
             residualForce[j][i] =
                 gravityTorques[j][i] - inertiaTorques[j][i] + dynamics[j][i]
                 - coriolisTorques[j][i] + rightGRFTorques[j][i]
                 + leftGRFTorques[j][i]

C2_Witness ==
    /\ WroteThisFrame /\ SumDefined /\ n_dofs = 7
    /\ coriolisTorques[0][0] # 0 /\ dynamics[0][0] # 0
    /\ rightGRFTorques[0][0] # 0 /\ inertiaTorques[0][1] # 0

\* C3: in every frame that is written, the internal row is the measured
\* torque minus the residual row, and it is inertia - gravity + Coriolis
\* - right contact - left contact.
C3_Internal ==
    (WroteThisFrame /\ SumDefined) =>
        /\ DOMAIN internalForce = Dofs(n_dofs)
        /\ \A j \in Dofs(n_dofs) : \A i \in Pows :
             /\ internalForce[j][i] = dynamics[j][i] - residualForce[j][i]
             /\ internalForce[j][i] =
                    inertiaTorques[j][i] - gravityTorques[j][i]
                    + coriolisTorques[j][i] - rightGRFTorques[j][i]
                    - leftGRFTorques[j][i]

C3_Witness ==
    /\ WroteThisFrame /\ SumDefined
    /\ dynamics[0][0] # 0 /\ leftGRFTorques[0][0] # 0
    /\ internalForce[0] # Zero

\* C4: in a frame whose acceleration row was read, the acceleration at index
\* j is the input times pi/180 unless j is 3, 4 or 5, where it is the input
\* itself, and the inertial torque is the mass matrix applied to exactly that
\* vector; the measured torques and the states are the inputs as read.
C4_Conversion ==
    /\ (pc \in {"process", "end_iter"} /\ readAt["accelerations"] = iter) =>
         \A j \in Dofs(n_dofs) :
            /\ accelerations[j] =
                 (IF j \in {3, 4, 5} THEN Const(input["accelerations"])
                  ELSE Radians(input["accelerations"]))
            /\ pc = "end_iter" =>
                 \A i \in Pows :
                    inertiaTorques[j][i] = osimModel.mass * accelerations[j][i]
    /\ (pc \in {"process", "end_iter"} /\ readAt["dynamics"] # NeverRead) =>
         \A j \in Dofs(n_dofs) : dynamics[j] = Const(input["dynamics"])
    /\ (pc \in {"process", "end_iter"} /\ readAt["states"] # NeverRead) =>
         \A j \in 0..(2 * n_dofs - 1) : states[j] = input["states"]

C4_Witness ==
    /\ pc = "end_iter" /\ readAt["accelerations"] = iter /\ n_dofs = 7
    /\ input["accelerations"] = 2 /\ input["dynamics"] = 1

\* The scenario of C5 at frame 1: one degree of freedom, unit mass, no
\* gravity, no contact forces, no velocity, measured torque 0, acceleration
\* input 2, every stream read in this iteration.
C5_Scenario ==
    /\ WroteThisFrame /\ SumDefined /\ iter = 1
    /\ n_dofs = 1 /\ osimModel.mass = 1 /\ osimModel.gravity = 0
    /\ \A x \in StreamNames : readAt[x] = iter
    /\ input["accelerations"] = 2 /\ input["dynamics"] = 0
    /\ input["grfs"] = 0 /\ input["states"] = 0

\* C5 as stated: the first written row is internal = [2], residual = [-2].
C5_AsStated ==
    C5_Scenario =>
        /\ internalForce[0] = Const(2)
        /\ residualForce[0] = Const(0 - 2)

\* C5 amended: the first written row is internal = [2*pi/180] and
\* residual = [-2*pi/180] (index 0 is a converted index), it is the first row
\* of both files, and a completed aligned 3-frame run of that model leaves
\* exactly 2 rows in each.
C5_FirstRow ==
    /\ C5_Scenario =>
         /\ internalForce[0] = Radians(2)
         /\ residualForce[0] = Radians(0 - 2)
         /\ Len(residualForce_file) = 1 /\ Len(internalForce_file) = 1
    /\ (Completed /\ Aligned /\ FramesInStates = 3 /\ n_dofs = 1
        /\ osimModel.mass = 1 /\ osimModel.gravity = 0)
         => Len(residualForce_file) = 2 /\ Len(internalForce_file) = 2

C5_Witness == C5_Scenario /\ streams["states"].st = "good"

\* C6: with argc below 7 or above 8 the program returns 1 with no model
\* loaded, no output file created and no input stream opened or read.
C6_BadArgc ==
    (argc < 7 \/ argc > 8) =>
        /\ pc \in {"start", "exited"}
        /\ pc = "exited" => exitCode = 1
        /\ osimModel = NoModel
        /\ ~outputsOpen
        /\ \A x \in StreamNames : streams[x] = [st |-> "closed", pos |-> 0]
        /\ \A file \in AllFiles : file = <<>>

C6_Witness == argc = 6 /\ pc = "exited" /\ exitCode = 1

\* C7 as stated: the loop ends at the first iteration in which the states
\* stream yields no time tag (end of input, an unreadable token, a file that
\* could not be opened), so a frame is processed only after the states
\* stream delivered its row, and no more frames are processed than a stream
\* can hold.
C7_AsStated ==
    CompleteModel =>
        /\ pc = "process" => streams["states"].st = "good"
        /\ iter <= MaxFrames

\* C8 as stated: with a tracked body missing, no error is signalled and the
\* contact torque that enters the sums of a written frame is a zero vector
\* of length n_dofs (here with 18 bodies and a states stream that has not
\* failed).
C8_AsStated ==
    (Processed /\ iter >= 1 /\ n_bodies = CentrifugalCapacity
     /\ streams["states"].st # "fail") =>
        /\ pc = "end_iter"
        /\ ~HasBody(osimModel, "calcn_r") => rightGRFTorques = Fill(n_dofs, 0)
        /\ ~HasBody(osimModel, "calcn_l") => leftGRFTorques = Fill(n_dofs, 0)

\* C9 as stated: every operand of every written row was read in the
\* iteration that wrote it, whatever the lengths of the streams (here with a
\* complete model and a states stream that has not failed).
C9_AsStated ==
    (CompleteModel /\ streams["states"].st # "fail") =>
        \A k \in 1..Len(residualForce_file) : \A x \in StreamNames :
            residualForce_file[k].from[x] = residualForce_file[k].frame

\* C9 amended: an operand of a written row was read in the iteration that
\* wrote it when its stream delivered a row in that iteration, and then the
\* buffer holds that row; when the stream had ended, the operand is what the
\* stream's last row left in the buffer (or what the buffer held before any
\* read).
C9_FreshWhenDelivered ==
    /\ \A file \in {residualForce_file, internalForce_file} :
         \A k \in 1..Len(file) : \A x \in StreamNames :
            file[k].from[x] =
                (IF streams[x].pos > file[k].frame THEN file[k].frame
                 ELSE streams[x].pos - 1)
    /\ pc \in {"process", "end_iter"} =>
         /\ readAt["dynamics"] = iter =>
              dynamics = DynRow(n_dofs, input["dynamics"])
         /\ readAt["grfs"] = iter => grfs = GrfRow(input["grfs"])
         /\ readAt["states"] = iter =>
              states = StateRow(n_dofs, input["states"])

C9_Witness ==
    /\ WroteThisFrame /\ iter = 2
    /\ \A x \in StreamNames : readAt[x] = iter
    /\ input["dynamics"] = 1 /\ input["grfs"] = 1

\* C10: the centrifugal buffer is written only at indices 0..17, holds one
\* assigned entry per body (entry 0 zero, entry j the force on body j) and
\* has as many entries as the model has bodies exactly when the model has
\* 18 bodies.
C10_CentrifugalBuffer ==
    Processed =>
        ((/\ \A j \in centrifugalWrites : j < CentrifugalCapacity
          /\ \A j \in 0..(CentrifugalCapacity - 1) : totalCentrifugalForces[j].set
          /\ Cardinality(DOMAIN totalCentrifugalForces) = n_bodies
          /\ totalCentrifugalForces[0].f = 0
          /\ \A j \in 1..(CentrifugalCapacity - 1) :
               totalCentrifugalForces[j].f = states[n_dofs])
         <=> n_bodies = 18)

C10_Witness ==
    /\ pc = "end_iter" /\ n_bodies = 18
    /\ totalCentrifugalForces[17] = [set |-> TRUE, f |-> 1]
====
